---- MODULE Spec2Model ----
(***************************************************************************)
(* Model of the query tools of remote-mcp-function-python:                 *)
(*   utils/log_analytics_tool.py  (LogAnalyticsTool, _parse_timespan)      *)
(*   utils/resource_graph_tool.py (ResourceGraphTool)                      *)
(*   mcp_tools.py, agent_functions.py (the report catalog and the two      *)
(*   dispatchers log_analytics_tool / resource_graph_tool,                 *)
(*   ensure_serializable)                                                  *)
(*   function_app.py (the tool entries that parse the trigger context)     *)
(*   utils/log_config.py (the session log file and the logging set-up)     *)
(*                                                                         *)
(* Strings are sequences of one-character strings.  Instants are minutes   *)
(* since datetime.min (0001-01-01 00:00).                                  *)
(***************************************************************************)
EXTENDS Integers, Sequences, FiniteSets, TLC

VARIABLES
    \* ---- timespan parser (SpecParse) ----
    timespan,      \* the argument handed to _parse_timespan
    clock,         \* what datetime.datetime.now() reads
    parsed,        \* what _parse_timespan did: a window or an exception
    \* ---- ensure_serializable (SpecSer) ----
    serModule,     \* whose ensure_serializable: "mcp_tools" or "agent_functions"
    serInput,      \* the object handed to ensure_serializable
    serOnce,       \* ensure_serializable(serInput)
    serTwice,      \* ensure_serializable(ensure_serializable(serInput))
    serPc,         \* "start", "once", "twice"
    \* ---- one tool invocation (Spec) ----
    pc,            \* "idle", "dispatch", "construct", "run", "returned"
    module,        \* "mcp_tools" or "agent_functions"
    report,        \* the function the caller invoked
    args,          \* the caller's arguments
    envSubscription, \* os.getenv("SUBSCRIPTION_ID")
    query,         \* the rendered query
    toolTimespan,  \* the timespan the dispatcher holds for run_query
    toolSubs,      \* the subscription ids the dispatcher holds for run_query
    credentials,   \* credential objects requested in this invocation
    backendCalls,  \* calls made to the query backend in this invocation
    fault,         \* the fault the environment raised in this invocation
    answer,        \* what the backend answered
    result,        \* what the invocation returned
    entry,         \* the function_app entry the invocation came through, "" if none
    context,       \* the context string handed to that entry
    \* ---- two invocations in flight (SpecPair) ----
    other,         \* the local variables of the invocation that is not running
    lastLogged,    \* the shared log: the function that wrote the last record
    \* ---- utils/log_config.py (SpecLog) ----
    azureEnv,        \* which of the Azure Functions environment variables are set
    currentLogFile,  \* _current_log_file: NoFile or the session's log file
    logNow,          \* datetime.datetime.now(), in milliseconds
    rootHandlers,    \* the handlers of the root logger
    loggerHandlers,  \* the handlers of each function-specific logger
    logFiles,        \* the files in the logs directory
    logReturn,       \* the last call of the module and the path it returned
    sessionReturns,  \* the paths the setup calls returned since the last reset
    earlierSessions, \* the session files of the sessions that were reset
    fileMtime,       \* st_mtime of each file in the logs directory
    emitted          \* the last log record: its logger and the files it was written to

parseVars == <<timespan, clock, parsed>>
serVars == <<serModule, serInput, serOnce, serTwice, serPc>>
callVars ==
    <<pc, module, report, args, envSubscription, query, toolTimespan, toolSubs,
      credentials, backendCalls, fault, answer, result, entry, context>>
pairVars == <<other, lastLogged>>
logVars ==
    <<azureEnv, currentLogFile, logNow, rootHandlers, loggerHandlers, logFiles,
      logReturn, sessionReturns, earlierSessions, fileMtime, emitted>>
vars == <<parseVars, serVars, callVars, pairVars, logVars>>

(***************************************************************************)
(* Bounds of the model.                                                    *)
(***************************************************************************)
MaxTokenLen == 4
MaxDepth == 2      \* nesting depth of the objects handed to ensure_serializable
MaxRows == 2       \* rows of a table
MaxTables == 2     \* tables of one backend answer
MaxMillis == 2     \* readings of the millisecond clock of the log file names

(***************************************************************************)
(* Python values.                                                          *)
(***************************************************************************)
\* A str value or None.  s is the text of a str, <<>> for None.
Str(s) == [t |-> "str", s |-> s]
None == [t |-> "None", s |-> <<>>]
IsStr(v) == v.t = "str"

Digits == {"0", "1", "3", "7"}
\* the characters the parser's inputs are written with
Alphabet == {"0", "1", "3"} \cup {"d", "h", "m", "D", "M", "P", "-", "x"}

DigitVal(c) == CASE c = "0" -> 0 [] c = "1" -> 1 [] c = "3" -> 3 [] c = "7" -> 7

AllDigits(s) == Len(s) > 0 /\ \A i \in 1..Len(s) : s[i] \in Digits

RECURSIVE DigitsValue(_)
DigitsValue(s) ==
    IF s = <<>> THEN 0
    ELSE 10 * DigitsValue(SubSeq(s, 1, Len(s) - 1)) + DigitVal(s[Len(s)])

\* str.lower() of one character of the alphabet
Lower(c) == CASE c = "D" -> "d" [] c = "M" -> "m" [] c = "P" -> "p" [] OTHER -> c

\* int(text): an optional sign and one or more digits, else ValueError
PyInt(s) ==
    IF AllDigits(s) THEN [ok |-> TRUE, val |-> DigitsValue(s)]
    ELSE IF Len(s) > 1 /\ s[1] = "-" /\ AllDigits(Tail(s))
         THEN [ok |-> TRUE, val |-> 0 - DigitsValue(Tail(s))]
         ELSE [ok |-> FALSE, val |-> 0]

(***************************************************************************)
(* datetime and timedelta.                                                 *)
(***************************************************************************)
MinutesPerHour == 60
MinutesPerDay == 1440
DatetimeMin == 0

\* 2026-11-06 12:00, in minutes since datetime.min
NowBase == 739925 * MinutesPerDay + 720
ClockReadings == {NowBase, NowBase + 7}

Window(start, end) == [exc |-> "", start |-> start, end |-> end]
Raised(exc) == [exc |-> exc, start |-> 0, end |-> 0]

\* end_time - timedelta(<unit>=n): OverflowError when the result would be
\* before datetime.min.  (datetime.max, year 9999, is out of reach of the
\* modelled tokens.)
MinusDelta(end, n, unit) ==
    IF n > (end - DatetimeMin) \div unit
    THEN Raised("OverflowError")
    ELSE Window(end - n * unit, end)

(***************************************************************************)
(* LogAnalyticsTool._parse_timespan                                        *)
(***************************************************************************)
\* re.match(r'P(\d+)D', text): the length of the digit run after the P when
\* the text starts with P, one or more digits and a D; 0 when no match.
RECURSIVE DigitRun(_, _)
DigitRun(s, i) ==
    IF i <= Len(s) /\ s[i] \in Digits THEN 1 + DigitRun(s, i + 1) ELSE 0

IsoMatch(s) ==
    LET n == DigitRun(s, 2)
    IN IF Len(s) >= 1 /\ s[1] = "P" /\ n >= 1 /\ Len(s) >= n + 2 /\ s[n + 2] = "D"
       THEN n ELSE 0

StartsWithP(s) == Len(s) >= 1 /\ s[1] = "P"

FallbackOneDay(end) == MinusDelta(end, 1, MinutesPerDay)

SimpleBranch(s, end) ==
    IF s = <<>> THEN Raised("IndexError")            \* timespan[-1]
    ELSE LET unit == Lower(s[Len(s)])
             value == PyInt(SubSeq(s, 1, Len(s) - 1))
             whole == PyInt(s)
         IN IF ~value.ok THEN FallbackOneDay(end)     \* except ValueError
            ELSE IF unit = "d" THEN MinusDelta(end, value.val, MinutesPerDay)
            ELSE IF unit = "h" THEN MinusDelta(end, value.val, MinutesPerHour)
            ELSE IF unit = "m" THEN MinusDelta(end, value.val, 1)
            ELSE IF whole.ok THEN MinusDelta(end, whole.val, MinutesPerDay)
            ELSE FallbackOneDay(end)                  \* except ValueError

IsoBranch(s, end) ==
    LET n == IsoMatch(s)
    IN IF n >= 1
       THEN MinusDelta(end, DigitsValue(SubSeq(s, 2, n + 1)), MinutesPerDay)
       ELSE FallbackOneDay(end)

\* _parse_timespan(timespan) with datetime.now() reading `end`
ParseTimespan(ts, end) ==
    IF IsStr(ts) /\ ~StartsWithP(ts.s) THEN SimpleBranch(ts.s, end)
    ELSE IF IsStr(ts) /\ StartsWithP(ts.s) THEN IsoBranch(ts.s, end)
    ELSE FallbackOneDay(end)

(***************************************************************************)
(* The inputs of the parser: every text over the alphabet up to            *)
(* MaxTokenLen characters, None, and a few long digit runs.                *)
(***************************************************************************)
RECURSIVE Texts(_)
Texts(n) ==
    IF n = 0 THEN {<<>>}
    ELSE LET shorter == Texts(n - 1)
         IN shorter \cup {Append(s, c) : s \in {x \in shorter : Len(x) = n - 1}, c \in Alphabet}

Million == <<"1", "0", "0", "0", "0", "0", "0">>
LongTexts ==
    {Million, <<"P">> \o Million \o <<"D">>}
        \cup {Append(Million, u) : u \in {"d", "h", "m", "D"}}

TimespanInputs == {None} \cup {Str(s) : s \in Texts(MaxTokenLen) \cup LongTexts}


(***************************************************************************)
(* Python objects handed to ensure_serializable.  Every object is a record *)
(* of one shape: k the kind, s a text, n a number, items the children.     *)
(*   None, int, str           plain scalars                                *)
(*   datetime, date           date/time values (pd.Timestamp is a datetime *)
(*                            subclass and is kept under "datetime")       *)
(*   Opaque                   an object json cannot dump, without to_dict  *)
(*                            and without __dict__ (a set, bytes, ...)     *)
(*   list, tuple              items are the elements                       *)
(*   dict                     items are entries; an entry has s the key    *)
(*                            and items = <<value>>                        *)
(*   HasToDict                items = <<what to_dict() returns>>           *)
(*   Object                   items are the entries of __dict__            *)
(*   DataFrame                items = <<list of column names, list of rows *)
(*                            (each a list of cells)>>                     *)
(***************************************************************************)
Obj(k, s, n, items) == [k |-> k, s |-> s, n |-> n, items |-> items]
NoneV == Obj("None", "", 0, <<>>)
IntV(n) == Obj("int", "", n, <<>>)
StrV(s) == Obj("str", s, 0, <<>>)
DatetimeV(id) == Obj("datetime", id, 0, <<>>)
DateV(id) == Obj("date", id, 0, <<>>)
OpaqueV(id) == Obj("Opaque", id, 0, <<>>)
ListV(items) == Obj("list", "", 0, items)
TupleV(items) == Obj("tuple", "", 0, items)
Entry(key, v) == Obj("entry", key, 0, <<v>>)
DictV(entries) == Obj("dict", "", 0, entries)
HasToDictV(v) == Obj("HasToDict", "", 0, <<v>>)
ObjectV(entries) == Obj("Object", "", 0, entries)
DataFrameV(columns, rows) == Obj("DataFrame", "", 0, <<ListV(columns), ListV(rows)>>)

\* obj.isoformat(): 'YYYY-MM-DDTHH:MM:SS' for a datetime, 'YYYY-MM-DD' for a date
IsoFormat(v) ==
    IF v.k = "datetime" THEN StrV(v.s \o "T00:00:00") ELSE StrV(v.s)

\* str(obj)
PyStr(v) ==
    CASE v.k = "datetime" -> StrV(v.s \o " 00:00:00")
      [] v.k = "date" -> StrV(v.s)
      [] OTHER -> StrV("<" \o v.s \o ">")

\* df.to_dict(orient="records"): one dict per row, keyed by the column names
\* in column order; the cells are handed over as they are.
ToDictRecords(df) ==
    LET columns == df.items[1].items
        rows == df.items[2].items
    IN ListV([i \in 1..Len(rows) |->
                DictV([j \in 1..Len(columns) |->
                          Entry(columns[j].s, rows[i].items[j])])])

\* json.dumps(obj) succeeds: None, int, str, and list, tuple, dict of such
RECURSIVE JsonSafe(_)
JsonSafe(v) ==
    CASE v.k \in {"None", "int", "str"} -> TRUE
      [] v.k \in {"list", "tuple", "dict"} ->
            \A i \in 1..Len(v.items) : JsonSafe(v.items[i])
      [] v.k = "entry" -> JsonSafe(v.items[1])
      [] OTHER -> FALSE

(***************************************************************************)
(* mcp_tools.ensure_serializable                                           *)
(***************************************************************************)
RECURSIVE EnsureSerializableMcp(_)
EnsureSerializableMcp(obj) ==
    CASE obj.k = "DataFrame" -> ToDictRecords(obj)
      [] obj.k = "datetime" -> IsoFormat(obj)
      [] obj.k = "date" -> IsoFormat(obj)
      [] obj.k = "HasToDict" -> obj.items[1]
      [] obj.k = "Object" ->
            DictV([i \in 1..Len(obj.items) |->
                      Entry(obj.items[i].s, EnsureSerializableMcp(obj.items[i].items[1]))])
      [] obj.k \in {"list", "tuple"} ->
            ListV([i \in 1..Len(obj.items) |-> EnsureSerializableMcp(obj.items[i])])
      [] obj.k = "dict" ->
            DictV([i \in 1..Len(obj.items) |->
                      Entry(obj.items[i].s, EnsureSerializableMcp(obj.items[i].items[1]))])
      [] OTHER -> IF JsonSafe(obj) THEN obj ELSE PyStr(obj)

(***************************************************************************)
(* agent_functions.ensure_serializable: no date/time branches              *)
(***************************************************************************)
RECURSIVE EnsureSerializableAgent(_)
EnsureSerializableAgent(obj) ==
    CASE obj.k = "DataFrame" -> ToDictRecords(obj)
      [] obj.k = "HasToDict" -> obj.items[1]
      [] obj.k = "Object" ->
            DictV([i \in 1..Len(obj.items) |->
                      Entry(obj.items[i].s, EnsureSerializableAgent(obj.items[i].items[1]))])
      [] obj.k \in {"list", "tuple"} ->
            ListV([i \in 1..Len(obj.items) |-> EnsureSerializableAgent(obj.items[i])])
      [] obj.k = "dict" ->
            DictV([i \in 1..Len(obj.items) |->
                      Entry(obj.items[i].s, EnsureSerializableAgent(obj.items[i].items[1]))])
      [] OTHER -> IF JsonSafe(obj) THEN obj ELSE PyStr(obj)

EnsureSerializable(m, obj) ==
    IF m = "mcp_tools" THEN EnsureSerializableMcp(obj)
    ELSE EnsureSerializableAgent(obj)

(***************************************************************************)
(* The objects of SpecSer: scalars and tables, wrapped up to MaxDepth      *)
(* times in a list, tuple, dict, object with to_dict or object with        *)
(* attributes.                                                             *)
(***************************************************************************)
Scalars ==
    {NoneV, IntV(1), StrV("a"), DatetimeV("2024-01-01"), DateV("2024-01-01"),
     OpaqueV("set")}

\* A table as the backend answers it (LogsTable): column names and rows.
\* The modelled tables have two columns, the first of the given kind.
Cell(kind, i) == IF kind = "datetime" THEN DatetimeV("2024-01-01") ELSE IntV(i)
ColumnName(kind) == IF kind = "datetime" THEN "TimeGenerated" ELSE "Weight"
Table(kind, k) ==
    [columns |-> <<ColumnName(kind), "Computer">>,
     rows |-> [i \in 1..k |-> <<Cell(kind, i), StrV("srv")>>]]
Tables == {Table(kind, k) : kind \in {"int", "datetime"}, k \in 0..MaxRows}

\* pd.DataFrame(data=table.rows, columns=table.columns)
DataFrameOf(table) ==
    DataFrameV([j \in 1..Len(table.columns) |-> StrV(table.columns[j])],
               [i \in 1..Len(table.rows) |-> ListV(table.rows[i])])

Frames == {DataFrameOf(t) : t \in Tables}

Wrap(v) ==
    {ListV(<<v>>), TupleV(<<v>>), DictV(<<Entry("key", v)>>), HasToDictV(v),
     ObjectV(<<Entry("attr", v)>>)}
        \cup {ListV(<<v, x>>) : x \in Scalars}

RECURSIVE Objects(_)
Objects(d) ==
    IF d = 0 THEN Scalars \cup Frames
    ELSE LET inner == Objects(d - 1)
         IN inner \cup UNION {Wrap(v) : v \in inner}

NotApplied == OpaqueV("not applied")

InitSer ==
    /\ serModule \in {"mcp_tools", "agent_functions"}
    /\ serInput \in Objects(MaxDepth)
    /\ serOnce = NotApplied
    /\ serTwice = NotApplied
    /\ serPc = "start"

ApplyOnce ==
    /\ serPc = "start"
    /\ serOnce' = EnsureSerializable(serModule, serInput)
    /\ serPc' = "once"
    /\ UNCHANGED <<serModule, serInput, serTwice>>

ApplyTwice ==
    /\ serPc = "once"
    /\ serTwice' = EnsureSerializable(serModule, serOnce)
    /\ serPc' = "twice"
    /\ UNCHANGED <<serModule, serInput, serOnce>>

(***************************************************************************)
(* The caller's arguments other than the timespan: None, a str or a list.  *)
(***************************************************************************)
PNone == [t |-> "None", s |-> "", l |-> <<>>]
PStr(x) == [t |-> "str", s |-> x, l |-> <<>>]
PList(l) == [t |-> "list", s |-> "", l |-> l]

\* `not value`
Falsy(v) ==
    \/ v.t = "None"
    \/ v.t = "str" /\ v.s = ""
    \/ v.t = "list" /\ v.l = <<>>

\* `not timespan`
FalsyTimespan(ts) == ts.t = "None" \/ ts.s = <<>>

\* f"{timespan}"
FormatTimespan(ts) == IF ts.t = "None" THEN <<"N", "o", "n", "e">> ELSE ts.s

(***************************************************************************)
(* The catalog.                                                            *)
(***************************************************************************)
GraphReports == {"GetServerMetadata", "GetSqlMetadata", "GetPatchingLevel"}
McpLogReports ==
    {"GetSqlBpAssessment", "GetWinBpAssessment", "GetSwChangesList", "GetSwConfig",
     "GetAnomalies"}
AgentLogReports == {"GetSqlBpAssessment", "GetAnomalies"}
ServerReports == {"GetSwChangesList", "GetSwConfig"}
Dispatchers == {"resource_graph_tool", "log_analytics_tool"}
Modules == {"mcp_tools", "agent_functions"}

ReportsOf(m) ==
    IF m = "mcp_tools" THEN GraphReports \cup McpLogReports \cup Dispatchers
    ELSE GraphReports \cup AgentLogReports \cup Dispatchers

UsesGraph(r) == r \in GraphReports \cup {"resource_graph_tool"}

DefaultTimespan == Str(<<"3", "0", "d">>)          \* mcp_tools: "30d"
AgentAnomaliesDefault == Str(<<"7", "d">>)         \* agent_functions: "7d"

\* max_results = 500 / 1000; 0: the template has no `top` clause
MaxResultsFromCaller(r, a) ==
    IF r \notin {"GetSwChangesList", "GetSwConfig", "GetWinBpAssessment"} THEN 0
    ELSE IF FalsyTimespan(a.timespan) THEN 500 ELSE 1000
MaxResults(r, a) ==
    CASE r = "GetSwChangesList" -> 500
      [] r = "GetSwConfig" -> 1000
      [] r = "GetWinBpAssessment" -> 500
      [] OTHER -> 0

\* weight_threshold = 5.0; "": the template has no Weight filter
WeightThreshold(r, a) == IF r = "GetWinBpAssessment" THEN "5.0" ELSE ""

\* f"... Computer == '{ServerName}' ..."
FormatServerEscaped(v) ==
    IF v.t = "None" THEN "None"
    ELSE IF v.s = "x' or '1'=='1" THEN "x'' or ''1''==''1" ELSE v.s
FormatServer(v) == IF v.t = "None" THEN "None" ELSE v.s

NoQuery ==
    [report |-> "", timespanText |-> <<>>, server |-> "", maxResults |-> 0,
     weightThreshold |-> ""]

\* The query text a report renders: which template, the timespan text and
\* the server name interpolated into it.
RenderQuery(m, r, a) ==
    LET local ==
            IF m = "mcp_tools"
            THEN IF FalsyTimespan(a.timespan) THEN DefaultTimespan ELSE a.timespan
            ELSE IF r = "GetAnomalies" /\ FalsyTimespan(a.timespan)
                 THEN AgentAnomaliesDefault ELSE a.timespan
    IN IF r \in Dispatchers \/ r \in GraphReports
       THEN [report |-> r, timespanText |-> <<>>, server |-> "", maxResults |-> 0,
             weightThreshold |-> ""]
       ELSE [report |-> r, timespanText |-> FormatTimespan(local),
             server |-> IF r \in ServerReports THEN FormatServer(a.server) ELSE "",
             maxResults |-> IF m = "mcp_tools" THEN MaxResults(r, a) ELSE 0,
             weightThreshold |-> IF m = "mcp_tools" THEN WeightThreshold(r, a) ELSE ""]

\* The timespan a report hands to log_analytics_tool
PassedTimespan(m, r, a) ==
    IF UsesGraph(r) THEN None
    ELSE IF r = "log_analytics_tool" THEN a.timespan
    ELSE IF m = "mcp_tools" THEN None           \* "Pass None for timespan"
    ELSE IF r = "GetAnomalies" /\ FalsyTimespan(a.timespan) THEN AgentAnomaliesDefault
    ELSE a.timespan

\* The subscription argument a report hands to resource_graph_tool
PassedSubscription(m, r, a) ==
    IF ~UsesGraph(r) THEN PNone
    ELSE IF r = "resource_graph_tool" \/ m = "mcp_tools" THEN a.subscription
    ELSE IF a.subscription.t = "str" THEN PList(<<a.subscription>>)
    ELSE a.subscription

\* a report without the parameter check
NoParameterError(m, r, a) == ""
\* The parameter check at the head of a report: the error message, "" if none
ParameterError(m, r, a) ==
    IF r \notin GraphReports THEN ""
    ELSE IF m = "mcp_tools"
         THEN IF Falsy(a.subscription) THEN "subscription_id is required" ELSE ""
         ELSE IF a.subscription.t \in {"str", "list"} THEN ""
              ELSE "subscription_ids is not a string or a list"

(***************************************************************************)
(* Results and documents.                                                  *)
(***************************************************************************)
ErrorDoc(msg) == DictV(<<Entry("error", StrV(msg))>>)
IsErrorDoc(doc) ==
    /\ doc.k = "dict" /\ Len(doc.items) = 1
    /\ doc.items[1].s = "error" /\ doc.items[1].items[1].k = "str"

NoResult == [kind |-> "none", doc |-> NoneV]
Json(doc) == [kind |-> "json", doc |-> doc]
Escaped(msg) == [kind |-> "escaped", doc |-> StrV(msg)]

\* json.dumps(obj): the document; a tuple is written as an array
RECURSIVE JsonDumps(_)
JsonDumps(v) ==
    IF v.k \in {"list", "tuple"}
    THEN ListV([i \in 1..Len(v.items) |-> JsonDumps(v.items[i])])
    ELSE IF v.k = "dict"
    THEN DictV([i \in 1..Len(v.items) |->
                   Entry(v.items[i].s, JsonDumps(v.items[i].items[1]))])
    ELSE v

\* except Exception as e: return json.dumps({"error": str(e)})
DispatcherCatchReraise(msg) == Escaped(msg)
DispatcherCatch(msg) == Json(ErrorDoc(msg))

\* serializable_response = ensure_serializable(response)
\* return json.dumps(serializable_response)
SerializeAndDump(m, response) ==
    LET serializable == EnsureSerializable(m, response)
    IN IF JsonSafe(serializable) THEN Json(JsonDumps(serializable))
       ELSE DispatcherCatch("Object is not JSON serializable")

(***************************************************************************)
(* get_credential and the tool constructors.                               *)
(***************************************************************************)
CredentialSources == {"chain", "default", "cli"}
\* get_credential() raises only when the chained credential, the default
\* credential and the CLI credential all fail to construct.
GetCredentialRaises(failing) == failing = CredentialSources

\* def __init__(self): the keyword arguments the tool constructors accept
InitKeywords == {}
\* the keyword arguments the dispatcher of a module passes to the constructor
ConstructorKeywords(m) == IF m = "mcp_tools" THEN {"credential"} ELSE {}
ConstructorTypeError(m) == ~(ConstructorKeywords(m) \subseteq InitKeywords)

(***************************************************************************)
(* The backend's answers.                                                  *)
(***************************************************************************)
NoAnswer == [raises |-> FALSE, exc |-> "none", tables |-> <<>>, rows |-> 0]
RaiseAnswer(exc) == [raises |-> TRUE, exc |-> exc, tables |-> <<>>, rows |-> 0]
TablesAnswer(tables) == [raises |-> FALSE, exc |-> "", tables |-> tables, rows |-> 0]
DataAnswer(k) == [raises |-> FALSE, exc |-> "", tables |-> <<>>, rows |-> k]

LogAnswers ==
    {RaiseAnswer("ResourceNotFoundError"), RaiseAnswer("HttpResponseError")}
        \cup {TablesAnswer([i \in 1..n |-> t]) : n \in 1..MaxTables, t \in Tables}

GraphAnswers ==
    {RaiseAnswer("HttpResponseError"), RaiseAnswer("Exception")}
        \cup {DataAnswer(k) : k \in 0..MaxRows}

GuidWorkspace == "11111111-2222-3333-4444-555555555555"
\* a run_query that refuses a workspace id that is not a GUID
LogPrecheckGuidOnly(workspace, ts, now) ==
    IF workspace.t # "str" THEN "TypeError"
    ELSE IF workspace.s # GuidWorkspace THEN "ValueError"
    ELSE ParseTimespan(ts, now).exc
\* LogAnalyticsTool.run_query before the backend call: the exception raised
\* by re.match on the workspace id or by _parse_timespan, "" if none
LogPrecheck(workspace, ts, now) ==
    IF workspace.t # "str" THEN "TypeError"
    ELSE ParseTimespan(ts, now).exc

\* response = self.client.query_workspace(...) / self.client.resources(request):
\* the calls made to the backend once run_query has made this one
CallBackendAndRetry(calls, call, ans) ==
    IF ans.raises THEN Append(Append(calls, call), call) ELSE Append(calls, call)
CallBackend(calls, call, ans) == Append(calls, call)

\* LogAnalyticsTool.run_query after the backend call
LogResponse(ans) ==
    IF ans.raises THEN DictV(<<Entry("error", StrV(ans.exc))>>)
    ELSE ListV([i \in 1..Len(ans.tables) |-> DataFrameOf(ans.tables[i])])

\* ResourceGraphTool.run_query after the backend call
GraphResponse(ans) ==
    IF ans.raises
    THEN DictV(<<Entry("error",
                   StrV((IF ans.exc = "HttpResponseError" THEN "Query failed: "
                         ELSE "An unexpected error occurred: ") \o ans.exc))>>)
    ELSE DictV(<<Entry("data", ListV([i \in 1..ans.rows |->
                                        DictV(<<Entry("name", StrV("srv"))>>)])),
                 Entry("count", IntV(ans.rows)),
                 Entry("total_records", IntV(ans.rows)),
                 Entry("skip_token", NoneV)>>)

(***************************************************************************)
(* The caller's inputs.                                                    *)
(***************************************************************************)
WorkspaceInputs == {PNone, PStr("ws-1"), PStr(GuidWorkspace)}
ServerInputs == {PNone, PStr(""), PStr("srv"), PStr("x' or '1'=='1")}
SubscriptionInputs(m) ==
    IF m = "mcp_tools" THEN {PNone, PStr(""), PStr("sub-1")}
    ELSE {PNone, PStr(""), PStr("sub-1"), PList(<<>>), PList(<<PStr("sub-1")>>)}
CallTimespans ==
    {None, Str(<<>>), Str(<<"3", "d">>), Str(<<"3", "0", "d">>),
     Str(<<"1", "0", "0", "d">>), Str(<<"1", "h">>), Str(<<"x">>),
     Str(<<"1", "d", ")", "|">>)}

ArgsOf(m, r) ==
    IF UsesGraph(r)
    THEN {[subscription |-> sub, workspace |-> PNone, server |-> PNone, timespan |-> None] :
            sub \in SubscriptionInputs(m)}
    ELSE {[subscription |-> PNone, workspace |-> ws, server |-> srv, timespan |-> ts] :
            ws \in WorkspaceInputs,
            srv \in IF r \in ServerReports THEN ServerInputs ELSE {PNone},
            ts \in CallTimespans}

NoArgs == [subscription |-> PNone, workspace |-> PNone, server |-> PNone, timespan |-> None]

(***************************************************************************)
(* function_app: the context string of a tool trigger.  A context is told  *)
(* apart by what json.loads and the two subscripts make of it.             *)
(***************************************************************************)
PMissing == [t |-> "missing", s |-> "", l |-> <<>>]      \* key not in the dict

Context(shape, a) == [shape |-> shape, args |-> a]
NoContext == Context("none", NoArgs)

\* the function_app entries wrap the eight reports of mcp_tools
EntryReports == GraphReports \cup McpLogReports
EntryName(r) == r \o "_function"

ContextsOf(r) ==
    {Context(shape, NoArgs) :
        shape \in {"not json", "not an object", "no arguments", "arguments not an object"}}
      \cup {Context("ok", a) : a \in ArgsOf("mcp_tools", r)}
      \cup {Context("ok", [a EXCEPT !.subscription = PMissing]) :
                a \in {x \in ArgsOf("mcp_tools", r) : UsesGraph(r)}}
      \cup {Context("ok", [a EXCEPT !.workspace = PMissing]) :
                a \in {x \in ArgsOf("mcp_tools", r) : ~UsesGraph(r)}}
      \cup {Context("ok", [a EXCEPT !.server = PMissing]) :
                a \in {x \in ArgsOf("mcp_tools", r) : r \in ServerReports}}

\* content = json.loads(context); content["arguments"]["<required>"]:
\* the exception raised, "" if none
EntryError(r, ctx) ==
    IF ctx.shape = "not json" THEN "JSONDecodeError"
    ELSE IF ctx.shape = "not an object" THEN "TypeError"
    ELSE IF ctx.shape = "no arguments" THEN "KeyError: arguments"
    ELSE IF ctx.shape = "arguments not an object" THEN "TypeError"
    ELSE IF UsesGraph(r) /\ ctx.args.subscription = PMissing
    THEN "KeyError: subscription_id"
    ELSE IF ~UsesGraph(r) /\ ctx.args.workspace = PMissing THEN "KeyError: workspace_id"
    ELSE IF r \in ServerReports /\ ctx.args.server = PMissing THEN "KeyError: ServerName"
    ELSE ""

\* except Exception as e: return json.dumps({"error": str(e)})
EntryCatchReraise(msg) == Escaped(msg)
EntryCatch(msg) == Json(ErrorDoc(msg))

(***************************************************************************)
(* One invocation, step by step.                                           *)
(***************************************************************************)
CallIdle ==
    /\ pc = "idle" /\ module = "mcp_tools" /\ report = "" /\ args = NoArgs
    /\ query = NoQuery /\ toolTimespan = None /\ toolSubs = PNone
    /\ credentials = 0 /\ backendCalls = <<>> /\ fault = "" /\ answer = NoAnswer
    /\ result = NoResult /\ entry = "" /\ context = NoContext

\* A report function up to its call of the dispatcher
Report(m, r, a) ==
    LET err == ParameterError(m, r, a)
    IN /\ module' = m /\ report' = r /\ args' = a
       /\ IF err # ""
          THEN /\ result' = Json(ErrorDoc(err))
               /\ pc' = "returned"
               /\ UNCHANGED <<query, toolTimespan, toolSubs>>
          ELSE /\ result' = NoResult
               /\ pc' = "dispatch"
               /\ query' = RenderQuery(m, r, a)
               /\ toolTimespan' = PassedTimespan(m, r, a)
               /\ toolSubs' = PassedSubscription(m, r, a)

\* A direct call of a report or of a dispatcher
Invoke ==
    /\ pc = "idle"
    /\ \E m \in Modules : \E r \in ReportsOf(m) : \E a \in ArgsOf(m, r) : Report(m, r, a)
    /\ UNCHANGED <<envSubscription, credentials, backendCalls, fault, answer,
                   entry, context>>

\* A function_app entry: parse the context, then call the report of mcp_tools
Trigger ==
    /\ pc = "idle"
    /\ \E r \in EntryReports : \E ctx \in ContextsOf(r) :
        LET exc == EntryError(r, ctx)
        IN /\ entry' = EntryName(r) /\ context' = ctx
           /\ IF exc # ""
              THEN /\ result' = EntryCatch(exc)
                   /\ pc' = "returned"
                   /\ module' = "mcp_tools" /\ report' = r
                   /\ UNCHANGED <<args, query, toolTimespan, toolSubs>>
              ELSE Report("mcp_tools", r, ctx.args)
    /\ UNCHANGED <<envSubscription, credentials, backendCalls, fault, answer>>

\* log_analytics_tool / resource_graph_tool up to the credential
Dispatch ==
    /\ pc = "dispatch"
    /\ toolTimespan' =
          IF ~UsesGraph(report) /\ module = "mcp_tools" /\ FalsyTimespan(toolTimespan)
          THEN DefaultTimespan ELSE toolTimespan
    /\ toolSubs' =
          IF ~UsesGraph(report) THEN toolSubs
          ELSE IF module = "mcp_tools"
               THEN PList(<<IF Falsy(toolSubs) THEN envSubscription ELSE toolSubs>>)
               ELSE IF Falsy(toolSubs) THEN PList(<<envSubscription>>) ELSE toolSubs
    /\ IF module = "mcp_tools"
       THEN \E failing \in SUBSET CredentialSources :
              /\ credentials' = credentials + 1
              /\ IF GetCredentialRaises(failing)
                 THEN /\ fault' = "credential"
                      /\ result' = DispatcherCatch("credential unavailable")
                      /\ pc' = "returned"
                 ELSE /\ pc' = "construct"
                      /\ UNCHANGED <<fault, result>>
       ELSE /\ pc' = "construct"
            /\ UNCHANGED <<credentials, fault, result>>
    /\ UNCHANGED <<module, report, args, envSubscription, query, backendCalls, answer>>

\* LogAnalyticsTool(...) / ResourceGraphTool(...)
Construct ==
    /\ pc = "construct"
    /\ IF ConstructorTypeError(module)
       THEN /\ fault' = "constructor"
            /\ result' = DispatcherCatch("__init__() got an unexpected keyword argument")
            /\ pc' = "returned"
            /\ UNCHANGED credentials
       ELSE \E fails \in BOOLEAN :
              /\ credentials' = credentials + 1       \* AzureCliCredential()
              /\ IF fails
                 THEN /\ fault' = "constructor"
                      /\ result' = DispatcherCatch("credential unavailable")
                      /\ pc' = "returned"
                 ELSE /\ pc' = "run"
                      /\ UNCHANGED <<fault, result>>
    /\ UNCHANGED <<module, report, args, envSubscription, query, toolTimespan, toolSubs,
                   backendCalls, answer>>

\* analytics_tool.run_query(query, workspace_id, timespan), then
\* ensure_serializable and json.dumps
RunLogQuery ==
    /\ pc = "run" /\ ~UsesGraph(report)
    /\ LET pre == LogPrecheck(args.workspace, toolTimespan, clock)
       IN IF pre # ""
          THEN /\ result' = SerializeAndDump(module, DictV(<<Entry("error", StrV(pre))>>))
               /\ UNCHANGED <<backendCalls, answer, fault>>
          ELSE \E ans \in LogAnswers :
                 LET w == ParseTimespan(toolTimespan, clock)
                 IN /\ backendCalls' =
                          CallBackend(backendCalls,
                                      [api |-> "query_workspace", target |-> args.workspace,
                                       query |-> query, start |-> w.start, end |-> w.end],
                                      ans)
                    /\ answer' = ans
                    /\ fault' = IF ans.raises THEN "backend" ELSE fault
                    /\ result' = SerializeAndDump(module, LogResponse(ans))
    /\ pc' = "returned"
    /\ UNCHANGED <<module, report, args, envSubscription, query, toolTimespan, toolSubs,
                   credentials>>

\* graph_tool.run_query(query, subscription_ids), then ensure_serializable
\* and json.dumps
RunGraphQuery ==
    /\ pc = "run" /\ UsesGraph(report)
    /\ \E ans \in GraphAnswers :
        /\ backendCalls' =
              CallBackend(backendCalls,
                          [api |-> "resources", target |-> toolSubs, query |-> query,
                           start |-> 0, end |-> 0],
                          ans)
        /\ answer' = ans
        /\ fault' = IF ans.raises THEN "backend" ELSE fault
        /\ result' = SerializeAndDump(module, GraphResponse(ans))
    /\ pc' = "returned"
    /\ UNCHANGED <<module, report, args, envSubscription, query, toolTimespan, toolSubs,
                   credentials>>

\* The invocation has returned; the next one is accepted
NextInvocation ==
    /\ pc = "returned"
    /\ pc' = "idle" /\ module' = "mcp_tools" /\ report' = "" /\ args' = NoArgs
    /\ query' = NoQuery /\ toolTimespan' = None /\ toolSubs' = PNone
    /\ credentials' = 0 /\ backendCalls' = <<>> /\ fault' = "" /\ answer' = NoAnswer
    /\ result' = NoResult /\ entry' = "" /\ context' = NoContext
    /\ UNCHANGED envSubscription

(***************************************************************************)
(* Two invocations in flight.  Every variable of an invocation is a        *)
(* parameter or a local of the report, of the dispatcher or of run_query,  *)
(* and the tool object is created inside the dispatcher: a switch of the   *)
(* running invocation saves and restores all of them.  What the two        *)
(* invocations share is the environment, the clock and the log.            *)
(***************************************************************************)
Frame ==
    [pc |-> pc, module |-> module, report |-> report, args |-> args, query |-> query,
     toolTimespan |-> toolTimespan, toolSubs |-> toolSubs, credentials |-> credentials,
     backendCalls |-> backendCalls, fault |-> fault, answer |-> answer,
     result |-> result, entry |-> entry, context |-> context]

IdleFrame ==
    [pc |-> "idle", module |-> "mcp_tools", report |-> "", args |-> NoArgs,
     query |-> NoQuery, toolTimespan |-> None, toolSubs |-> PNone, credentials |-> 0,
     backendCalls |-> <<>>, fault |-> "", answer |-> NoAnswer, result |-> NoResult,
     entry |-> "", context |-> NoContext]

\* a dispatcher that kept the timespan in a variable of the module
TimespanOfModule(frame, held) == held
\* the timespan an invocation finds when it runs again: its own parameter,
\* not what the other invocation holds
TimespanOfFrame(frame, held) == frame.toolTimespan

Switch ==
    /\ other' = Frame
    /\ pc' = other.pc /\ module' = other.module /\ report' = other.report
    /\ args' = other.args /\ query' = other.query
    /\ toolTimespan' = TimespanOfFrame(other, toolTimespan)
    /\ toolSubs' = other.toolSubs /\ credentials' = other.credentials
    /\ backendCalls' = other.backendCalls /\ fault' = other.fault
    /\ answer' = other.answer /\ result' = other.result
    /\ entry' = other.entry /\ context' = other.context
    /\ UNCHANGED <<envSubscription, lastLogged>>

PairReports == {"log_analytics_tool", "GetServerMetadata"}
PairArgs(m, r) ==
    {a \in ArgsOf(m, r) :
        /\ a.workspace \in {PNone, PStr(GuidWorkspace)}
        /\ a.subscription \in {PNone, PStr("sub-1")}
        /\ a.timespan \in {None, Str(<<>>), Str(<<"3", "d">>)}}

\* A direct call, from the inputs of the two-invocation runs
InvokePair ==
    /\ pc = "idle"
    /\ \E m \in Modules : \E r \in PairReports : \E a \in PairArgs(m, r) : Report(m, r, a)
    /\ UNCHANGED <<envSubscription, credentials, backendCalls, fault, answer,
                   entry, context>>

\* logger.info(...) / logger.error(...) of the running function
Logs == lastLogged' = report'

PairIdle == other = IdleFrame /\ lastLogged = ""

(***************************************************************************)
(* utils/log_config.py: the session log file and the logging set-up.       *)
(* A log file is named by the millisecond at which it was created.         *)
(***************************************************************************)
NoFile == 0        \* _current_log_file = None; a returned None

AzureVariables ==
    {"AZURE_FUNCTIONS_ENVIRONMENT", "WEBSITE_SITE_NAME", "FUNCTIONS_WORKER_RUNTIME"}
FunctionNames == {"GetServerMetadata", "GetSqlMetadata"}

\* is_azure_function_environment()
\* a test of the environment that looks at AZURE_FUNCTIONS_ENVIRONMENT alone
OnlyAzureFunctionsEnvironment == "AZURE_FUNCTIONS_ENVIRONMENT" \in azureEnv
IsAzureFunctionEnvironment == azureEnv # {}

FileHandler(path) == [kind |-> "file", path |-> path]
StreamHandler == [kind |-> "stream", path |-> NoFile]

\* timedelta(days=1), in milliseconds
MillisPerDay == 86400000
DaysToKeep == {0, 7}
\* a log file that a run of eight days ago left in the logs directory
OldLog == 1 - 8 * MillisPerDay

\* the files the file handlers of a logger write to, in handler order
FileWrites(handlers) ==
    LET files == SelectSeq(handlers, LAMBDA h : h.kind = "file")
    IN [i \in 1..Len(files) |-> files[i].path]

Range(seq) == {seq[i] : i \in 1..Len(seq)}

\* the files some handler holds open
OpenFiles ==
    Range(FileWrites(rootHandlers))
        \cup UNION {Range(FileWrites(loggerHandlers[n])) : n \in FunctionNames}

\* Logger.callHandlers: the handlers of the logger itself, then, as
\* propagate is left True, those of the root logger
Delivered(own, root) == FileWrites(own) \o FileWrites(root)

Record(logger, writes) == [logger |-> logger, writes |-> writes]
NoRecord == Record("", <<>>)

\* st_mtime after a record was written to the files `written` at `now`;
\* `files` are the files of the directory
Touch(files, mtime, written, now) ==
    [f \in files |-> IF f \in written \/ f \notin DOMAIN mtime THEN now ELSE mtime[f]]

\* a get_or_create_session_log_file that names a new file on every call
SessionLogFileAlwaysNew(current, now) == now
\* get_or_create_session_log_file() in the local environment
SessionLogFile(current, now) == IF current = NoFile THEN now ELSE current

\* a set-up that leaves the handlers of earlier set-ups on the logger
HandlersKept(handlers) == handlers
\* for handler in logger.handlers[:]: logger.removeHandler(handler)
HandlersRemoved(handlers) == <<>>

Returned(fn, path) == [fn |-> fn, path |-> path]
NoReturn == Returned("", NoFile)

LogIdle ==
    /\ azureEnv = {} /\ currentLogFile = NoFile /\ logNow = 1
    /\ rootHandlers = <<>> /\ loggerHandlers = [n \in FunctionNames |-> <<>>]
    /\ logFiles = {} /\ logReturn = NoReturn /\ sessionReturns = {}
    /\ earlierSessions = {} /\ fileMtime = <<>> /\ emitted = NoRecord

\* the environment variables change (os.environ[...] = ..., del os.environ[...])
SetEnvironment ==
    /\ \E e \in {{}} \cup {{v} : v \in AzureVariables} : e # azureEnv /\ azureEnv' = e
    /\ UNCHANGED <<currentLogFile, logNow, rootHandlers, loggerHandlers, logFiles,
                   logReturn, sessionReturns, earlierSessions, fileMtime, emitted>>

\* a millisecond passes
Tick ==
    /\ logNow < MaxMillis
    /\ logNow' = logNow + 1
    /\ UNCHANGED <<azureEnv, currentLogFile, rootHandlers, loggerHandlers, logFiles,
                   logReturn, sessionReturns, earlierSessions, fileMtime, emitted>>

GetOrCreateSessionLogFile ==
    /\ IF IsAzureFunctionEnvironment
       THEN /\ logReturn' = Returned("get_or_create_session_log_file", NoFile)
            /\ UNCHANGED currentLogFile
       ELSE /\ currentLogFile' = SessionLogFile(currentLogFile, logNow)
            /\ logReturn' = Returned("get_or_create_session_log_file", currentLogFile')
    /\ UNCHANGED <<azureEnv, logNow, rootHandlers, loggerHandlers, logFiles,
                   sessionReturns, earlierSessions, fileMtime, emitted>>

SetupTimestampedLogging ==
    IF IsAzureFunctionEnvironment
    THEN /\ logReturn' = Returned("setup_timestamped_logging", NoFile)
         /\ UNCHANGED <<azureEnv, currentLogFile, logNow, rootHandlers, loggerHandlers,
                        logFiles, sessionReturns, earlierSessions, fileMtime, emitted>>
    ELSE LET log_filepath == SessionLogFile(currentLogFile, logNow)
             writes == FileWrites(rootHandlers')
         IN /\ currentLogFile' = log_filepath
            /\ rootHandlers' = <<FileHandler(log_filepath), StreamHandler>>
            /\ logFiles' = logFiles \cup {log_filepath}
            /\ emitted' = Record("utils.log_config", writes)
            /\ fileMtime' = Touch(logFiles', fileMtime, Range(writes), logNow)
            /\ logReturn' = Returned("setup_timestamped_logging", log_filepath)
            /\ sessionReturns' = sessionReturns \cup {log_filepath}
            /\ UNCHANGED <<azureEnv, logNow, loggerHandlers, earlierSessions>>

SetupFunctionSpecificLogging ==
    \E function_name \in FunctionNames :
        IF IsAzureFunctionEnvironment
        THEN /\ logReturn' = Returned("setup_function_specific_logging", NoFile)
             /\ UNCHANGED <<azureEnv, currentLogFile, logNow, rootHandlers,
                            loggerHandlers, logFiles, sessionReturns, earlierSessions,
                            fileMtime, emitted>>
        ELSE LET log_filepath == SessionLogFile(currentLogFile, logNow)
                 handlers == HandlersRemoved(loggerHandlers[function_name])
                                \o <<FileHandler(log_filepath), StreamHandler>>
                 writes == Delivered(handlers, rootHandlers)
             IN /\ currentLogFile' = log_filepath
                /\ loggerHandlers' = [loggerHandlers EXCEPT ![function_name] = handlers]
                /\ logFiles' = logFiles \cup {log_filepath}
                /\ emitted' = Record(function_name, writes)
                /\ fileMtime' = Touch(logFiles', fileMtime, Range(writes), logNow)
                /\ logReturn' = Returned("setup_function_specific_logging", log_filepath)
                /\ sessionReturns' = sessionReturns \cup {log_filepath}
                /\ UNCHANGED <<azureEnv, logNow, rootHandlers, earlierSessions>>

ResetSessionLog ==
    /\ currentLogFile' = NoFile
    /\ logReturn' = Returned("reset_session_log", NoFile)
    /\ sessionReturns' = {}
    /\ earlierSessions' = earlierSessions \cup ({currentLogFile} \ {NoFile})
    /\ UNCHANGED <<azureEnv, logNow, rootHandlers, loggerHandlers, logFiles,
                   fileMtime, emitted>>

\* logging.getLogger(function_name).info(...)
Emit ==
    \E function_name \in FunctionNames :
        LET writes == Delivered(loggerHandlers[function_name], rootHandlers)
        IN /\ emitted' = Record(function_name, writes)
           /\ fileMtime' = Touch(logFiles, fileMtime, Range(writes), logNow)
           /\ UNCHANGED <<azureEnv, currentLogFile, logNow, rootHandlers, loggerHandlers,
                          logFiles, logReturn, sessionReturns, earlierSessions>>

\* cleanup_old_logs(days_to_keep).  log_file.unlink() of a file that a handler
\* holds open succeeds on POSIX and raises OSError on Windows.
CleanupOldLogs ==
    \E days_to_keep \in DaysToKeep : \E posix \in BOOLEAN :
        /\ logReturn' = Returned("cleanup_old_logs", NoFile)
        /\ IF IsAzureFunctionEnvironment \/ logFiles = {}
           THEN UNCHANGED <<logFiles, fileMtime, emitted>>
           ELSE LET cutoff_time == logNow - days_to_keep * MillisPerDay
                    old == {f \in logFiles : fileMtime[f] < cutoff_time}
                    deleted == IF posix THEN old ELSE old \ OpenFiles
                    writes == FileWrites(rootHandlers)
                IN /\ logFiles' = logFiles \ deleted
                   /\ IF deleted # {}
                      THEN /\ emitted' = Record("utils.log_config", writes)
                           /\ fileMtime' = Touch(logFiles', fileMtime, Range(writes), logNow)
                      ELSE /\ UNCHANGED emitted
                           /\ fileMtime' = Touch(logFiles', fileMtime, {}, logNow)
        /\ UNCHANGED <<azureEnv, currentLogFile, logNow, rootHandlers, loggerHandlers,
                       sessionReturns, earlierSessions>>

(***************************************************************************)
(* SpecParse: _parse_timespan applied once to an input and a clock reading *)
(* drawn in the initial state.                                             *)
(***************************************************************************)
NotParsed == Raised("not called")

ParseIdle == timespan = None /\ parsed = NotParsed
SerIdle ==
    /\ serModule = "mcp_tools" /\ serInput = NoneV /\ serOnce = NotApplied
    /\ serTwice = NotApplied /\ serPc = "start"

InitParse ==
    /\ timespan \in TimespanInputs
    /\ clock \in ClockReadings
    /\ parsed = NotParsed
    /\ SerIdle
    /\ CallIdle /\ envSubscription = PNone
    /\ PairIdle
    /\ LogIdle

CallParseTimespan ==
    /\ parsed = NotParsed
    /\ parsed' = ParseTimespan(timespan, clock)
    /\ UNCHANGED <<timespan, clock, serVars, callVars, pairVars, logVars>>

NextParse == CallParseTimespan

SpecParse == InitParse /\ [][NextParse]_vars

(***************************************************************************)
(* SpecSer: ensure_serializable applied to an object, then to its own      *)
(* output.                                                                 *)
(***************************************************************************)
InitSerSpec ==
    /\ InitSer
    /\ ParseIdle /\ clock = NowBase
    /\ CallIdle /\ envSubscription = PNone
    /\ PairIdle
    /\ LogIdle

NextSer ==
    \/ ApplyOnce /\ UNCHANGED <<parseVars, callVars, pairVars, logVars>>
    \/ ApplyTwice /\ UNCHANGED <<parseVars, callVars, pairVars, logVars>>

SpecSer == InitSerSpec /\ [][NextSer]_vars

(***************************************************************************)
(* Spec: invocations of the catalog, one at a time.                        *)
(***************************************************************************)
Init ==
    /\ CallIdle
    /\ envSubscription \in {PNone, PStr("sub-env")}
    /\ clock \in ClockReadings
    /\ ParseIdle
    /\ SerIdle
    /\ PairIdle
    /\ LogIdle

Next ==
    \/ Invoke /\ UNCHANGED <<logVars, parseVars, serVars, pairVars>>
    \/ Trigger /\ UNCHANGED <<logVars, parseVars, serVars, pairVars>>
    \/ Dispatch /\ UNCHANGED <<logVars, parseVars, serVars, pairVars, entry, context>>
    \/ Construct /\ UNCHANGED <<logVars, parseVars, serVars, pairVars, entry, context>>
    \/ RunLogQuery /\ UNCHANGED <<logVars, parseVars, serVars, pairVars, entry, context>>
    \/ RunGraphQuery /\ UNCHANGED <<logVars, parseVars, serVars, pairVars, entry, context>>
    \/ NextInvocation /\ UNCHANGED <<logVars, parseVars, serVars, pairVars>>

Spec == Init /\ [][Next]_vars

(***************************************************************************)
(* SpecPair: two invocations, their steps interleaved in every order.      *)
(***************************************************************************)
InitPair ==
    /\ CallIdle
    /\ envSubscription \in {PNone, PStr("sub-env")}
    /\ clock \in ClockReadings
    /\ ParseIdle
    /\ SerIdle
    /\ PairIdle
    /\ LogIdle

NextPair ==
    \/ InvokePair /\ Logs /\ UNCHANGED <<logVars, parseVars, serVars, other>>
    \/ Dispatch /\ Logs /\ UNCHANGED <<logVars, parseVars, serVars, other, entry, context>>
    \/ Construct /\ Logs /\ UNCHANGED <<logVars, parseVars, serVars, other, entry, context>>
    \/ RunLogQuery /\ Logs /\ UNCHANGED <<logVars, parseVars, serVars, other, entry, context>>
    \/ RunGraphQuery /\ Logs /\ UNCHANGED <<logVars, parseVars, serVars, other, entry, context>>
    \/ Switch /\ UNCHANGED <<logVars, parseVars, serVars>>

SpecPair == InitPair /\ [][NextPair]_vars

(***************************************************************************)
(* SpecLog: calls of the logging set-up in any order, while the clock      *)
(* advances and the environment variables change.                          *)
(***************************************************************************)
InitLog ==
    /\ azureEnv = {} /\ currentLogFile = NoFile /\ logNow = 1
    /\ rootHandlers = <<>> /\ loggerHandlers = [n \in FunctionNames |-> <<>>]
    /\ logFiles = {OldLog}
    /\ fileMtime = [f \in logFiles |-> OldLog]
    /\ logReturn = NoReturn /\ sessionReturns = {}
    /\ earlierSessions = {} /\ emitted = NoRecord
    /\ ParseIdle /\ clock = NowBase
    /\ SerIdle
    /\ CallIdle /\ envSubscription = PNone
    /\ PairIdle

NextLog ==
    \/ SetEnvironment /\ UNCHANGED <<parseVars, serVars, callVars, pairVars>>
    \/ Tick /\ UNCHANGED <<parseVars, serVars, callVars, pairVars>>
    \/ GetOrCreateSessionLogFile /\ UNCHANGED <<parseVars, serVars, callVars, pairVars>>
    \/ SetupTimestampedLogging /\ UNCHANGED <<parseVars, serVars, callVars, pairVars>>
    \/ SetupFunctionSpecificLogging /\ UNCHANGED <<parseVars, serVars, callVars, pairVars>>
    \/ ResetSessionLog /\ UNCHANGED <<parseVars, serVars, callVars, pairVars>>
    \/ Emit /\ UNCHANGED <<parseVars, serVars, callVars, pairVars>>
    \/ CleanupOldLogs /\ UNCHANGED <<parseVars, serVars, callVars, pairVars>>

SpecLog == InitLog /\ [][NextLog]_vars

(***************************************************************************)
(* What the claims speak of.                                               *)
(***************************************************************************)
Units == {"d", "h", "m"}
UnitMinutes(u) ==
    CASE u = "d" -> MinutesPerDay [] u = "h" -> MinutesPerHour [] u = "m" -> 1

\* <digits><d|h|m>, upper or lower case
MatchesSimple(s) ==
    /\ Len(s) >= 2
    /\ AllDigits(SubSeq(s, 1, Len(s) - 1))
    /\ Lower(s[Len(s)]) \in Units

\* P<digits>D
MatchesIso(s) ==
    /\ Len(s) >= 3
    /\ s[1] = "P" /\ s[Len(s)] = "D"
    /\ AllDigits(SubSeq(s, 2, Len(s) - 1))

ValidToken(ts) == IsStr(ts) /\ (MatchesSimple(ts.s) \/ MatchesIso(ts.s))

\* the duration a valid token denotes, in minutes
DenotedMinutes(s) ==
    IF MatchesSimple(s)
    THEN DigitsValue(SubSeq(s, 1, Len(s) - 1)) * UnitMinutes(Lower(s[Len(s)]))
    ELSE DigitsValue(SubSeq(s, 2, Len(s) - 1)) * MinutesPerDay

\* the parameters a report requires are all present
RequiredPresent ==
    /\ UsesGraph(report) => ~Falsy(args.subscription)
    /\ ~UsesGraph(report) => ~Falsy(args.workspace)
    /\ report \in ServerReports => ~Falsy(args.server)

\* the records of a table: one per row, the columns in the table's order,
\* date/time cells as ISO-8601 strings
JsonCell(c) == IF c.k \in {"datetime", "date"} THEN IsoFormat(c) ELSE c
ExpectedRecords(t) ==
    ListV([i \in 1..Len(t.rows) |->
              DictV([j \in 1..Len(t.columns) |->
                        Entry(t.columns[j], JsonCell(t.rows[i][j]))])])
PlainCells(t) ==
    \A i \in 1..Len(t.rows) : \A j \in 1..Len(t.columns) : JsonSafe(t.rows[i][j])

(***************************************************************************)
(* C1 (Spec).  Whatever fault is raised while the credential is obtained,  *)
(* the query tool is constructed or the query runs against the backend,    *)
(* the invocation returns a JSON document {"error": <message>}; no         *)
(* exception ever escapes to the caller.                                   *)
(***************************************************************************)
C1_FaultsBecomeErrorDocuments ==
    /\ result.kind # "escaped"
    /\ (pc = "returned" /\ fault # "") =>
          (result.kind = "json" /\ IsErrorDoc(result.doc))

\* a backend fault of a workspace query came back as an error document
C1_Witness ==
    /\ pc = "returned" /\ fault = "backend" /\ report = "log_analytics_tool"
    /\ Len(backendCalls) = 1
    /\ IsErrorDoc(result.doc)

(***************************************************************************)
(* C2 (Spec).  Every invocation of a catalog report of mcp_tools with all  *)
(* its required parameters present performs exactly one call to the query  *)
(* backend before it returns (stated for the invocations whose credential  *)
(* was obtained).                                                          *)
(***************************************************************************)
C2_OneBackendCallPerReport ==
    (/\ pc = "returned" /\ module = "mcp_tools"
     /\ report \in GraphReports \cup McpLogReports
     /\ RequiredPresent /\ fault # "credential")
        => Len(backendCalls) = 1

(***************************************************************************)
(* C3 (Spec).  For a report of mcp_tools that takes an optional timespan   *)
(* and a valid token from the caller, the time window the dispatcher holds *)
(* for the backend call is the window the token denotes, the same duration *)
(* that the rendered query text embeds.                                    *)
(***************************************************************************)
C3_WindowIsTheTokensWindow ==
    (/\ pc = "returned" /\ module = "mcp_tools" /\ report \in McpLogReports
     /\ ValidToken(args.timespan))
        => LET denoted == Window(clock - DenotedMinutes(args.timespan.s), clock)
           IN /\ ParseTimespan(Str(query.timespanText), clock) = denoted
              /\ ParseTimespan(toolTimespan, clock) = denoted
              /\ \A i \in 1..Len(backendCalls) :
                    Window(backendCalls[i].start, backendCalls[i].end) = denoted

(***************************************************************************)
(* C4 (Spec).  When the backend answers a workspace query with one table   *)
(* of k rows, the tool returns a JSON array of exactly k records, one per  *)
(* row, each listing the columns in the backend's order: not an error      *)
(* document and not an array inside another array (stated for the tables   *)
(* whose cells are plain scalars).                                         *)
(***************************************************************************)
C4_OneRecordPerRow ==
    (/\ pc = "returned" /\ ~UsesGraph(report)
     /\ answer.exc = "" /\ Len(answer.tables) = 1 /\ PlainCells(answer.tables[1]))
        => result = Json(ExpectedRecords(answer.tables[1]))

(***************************************************************************)
(* C5 (SpecSer).  The output of ensure_serializable holds only JSON-safe   *)
(* values, whatever the input is built from: serializing it never fails.   *)
(***************************************************************************)
C5_OutputIsJsonSafe == serPc # "start" => JsonSafe(serOnce)

(***************************************************************************)
(* C6 (SpecSer).  mcp_tools.ensure_serializable is idempotent:             *)
(* ensure_serializable(ensure_serializable(x)) = ensure_serializable(x).   *)
(***************************************************************************)
C6_Idempotent ==
    (serPc = "twice" /\ serModule = "mcp_tools") => serTwice = serOnce

(***************************************************************************)
(* C7 (SpecParse).  For a token <n><unit>, n a non-negative integer and    *)
(* the unit d, h or m in either case, _parse_timespan returns a window     *)
(* that ends at the clock reading and is exactly n units wide.             *)
(***************************************************************************)
C7_ExactWindow ==
    (parsed # NotParsed /\ IsStr(timespan) /\ MatchesSimple(timespan.s))
        => /\ parsed.exc = ""
           /\ parsed.end = clock
           /\ parsed.end - parsed.start = DenotedMinutes(timespan.s)

(***************************************************************************)
(* C8 (SpecParse).  A null timespan and an empty-string timespan resolve   *)
(* to the same window, the default of 30 days ending at now; neither gives *)
(* an error or a window of another width.                                  *)
(***************************************************************************)
C8_NullAndEmptyGiveDefault ==
    (parsed # NotParsed /\ timespan \in {None, Str(<<>>)})
        => parsed = Window(clock - DenotedMinutes(DefaultTimespan.s), clock)

(***************************************************************************)
(* C9 (SpecParse).  For a non-empty token that matches neither             *)
(* <digits><d|h|m> nor P<digits>D, _parse_timespan returns the 1-day       *)
(* window ending at now and never raises.                                  *)
(***************************************************************************)
C9_UnparsableFallsBackToOneDay ==
    (/\ parsed # NotParsed /\ IsStr(timespan) /\ timespan.s # <<>>
     /\ ~MatchesSimple(timespan.s) /\ ~MatchesIso(timespan.s))
        => parsed = Window(clock - MinutesPerDay, clock)

(***************************************************************************)
(* C10 (SpecParse).  Every window _parse_timespan returns has              *)
(* start <= end.                                                           *)
(***************************************************************************)
C10_StartNotAfterEnd == parsed.exc = "" => parsed.start <= parsed.end

(***************************************************************************)
(* C11 (SpecParse).  A token with a negative number and a unit d, h or m   *)
(* (-5d, -3h) is treated as unparsable: _parse_timespan returns the 1-day  *)
(* fallback window for it.                                                 *)
(***************************************************************************)
NegativeToken(s) ==
    /\ Len(s) >= 3 /\ s[1] = "-"
    /\ AllDigits(SubSeq(s, 2, Len(s) - 1))
    /\ DigitsValue(SubSeq(s, 2, Len(s) - 1)) > 0
    /\ Lower(s[Len(s)]) \in Units

C11_NegativeFallsBackToOneDay ==
    (parsed # NotParsed /\ IsStr(timespan) /\ NegativeToken(timespan.s))
        => parsed = Window(clock - MinutesPerDay, clock)

(***************************************************************************)
(* C12 (SpecParse).  For every token P<n>D, _parse_timespan returns a      *)
(* window that ends at the clock reading and is exactly n days wide.       *)
(***************************************************************************)
C12_IsoExactDays ==
    (parsed # NotParsed /\ IsStr(timespan) /\ MatchesIso(timespan.s))
        => /\ parsed.exc = ""
           /\ parsed.end = clock
           /\ parsed.end - parsed.start = DenotedMinutes(timespan.s)

(***************************************************************************)
(* C13 (Spec).  For a report that takes an optional timespan, when the     *)
(* caller gives none (null or empty) the rendered query text embeds the    *)
(* report's default duration, 30d for GetSqlBpAssessment,                  *)
(* GetWinBpAssessment, GetSwChangesList and GetSwConfig; the text of a     *)
(* null value is never interpolated into the query.                        *)
(***************************************************************************)
ThirtyDayReports ==
    {"GetSqlBpAssessment", "GetWinBpAssessment", "GetSwChangesList", "GetSwConfig"}

C13_DefaultDurationInQuery ==
    (/\ report \in McpLogReports /\ query.report = report
     /\ FalsyTimespan(args.timespan))
        => /\ query.timespanText # <<"N", "o", "n", "e">>
           /\ query.timespanText # <<>>
           /\ report \in ThirtyDayReports => query.timespanText = <<"3", "0", "d">>

(***************************************************************************)
(* C14 (Spec).  For every report, when one of its required parameters      *)
(* (subscription id(s), workspace id, server name) is absent, null or      *)
(* empty, the invocation ends with a JSON error document: not with rows    *)
(* and not with an unhandled fault (stated for a deployment whose          *)
(* SUBSCRIPTION_ID setting is present).                                    *)
(***************************************************************************)
RequiredAbsent ==
    \/ report \in GraphReports /\ Falsy(args.subscription)
    \/ report \in McpLogReports /\ Falsy(args.workspace)
    \/ report \in ServerReports /\ Falsy(args.server)

C14_MissingParameterIsAnError ==
    (pc = "returned" /\ RequiredAbsent /\ envSubscription # PNone)
        => result.kind = "json" /\ IsErrorDoc(result.doc)

(***************************************************************************)
(* C15 (Spec).  Whatever context string a function_app tool entry is       *)
(* handed (not valid JSON, no 'arguments' key, a missing required          *)
(* argument) and whenever the report it calls fails, the entry returns a   *)
(* JSON document {"error": <message>}; it never raises.                    *)
(***************************************************************************)
C15_EntryAlwaysReturnsErrorDocument ==
    entry # "" =>
        /\ result.kind # "escaped"
        /\ (pc = "returned" /\ (EntryError(report, context) # "" \/ fault # ""))
              => (result.kind = "json" /\ IsErrorDoc(result.doc))

\* a context without the 'arguments' key came back as an error document
C15_Witness ==
    /\ pc = "returned" /\ entry = "GetSwChangesList_function"
    /\ context.shape = "no arguments"
    /\ result = Json(ErrorDoc("KeyError: arguments"))

(***************************************************************************)
(* C16 (Spec).  No retries: within one invocation the backend is called at *)
(* most once, and after a failed call the invocation returns an error      *)
(* document without calling the backend again.                             *)
(***************************************************************************)
C16_NoRetries ==
    /\ Len(backendCalls) <= 1
    /\ fault = "backend" =>
          /\ pc = "returned"
          /\ Len(backendCalls) = 1
          /\ result.kind = "json" /\ IsErrorDoc(result.doc)

\* a failed Resource Graph call: one call made, an error document returned
C16_Witness ==
    /\ pc = "returned" /\ fault = "backend" /\ UsesGraph(report)
    /\ answer = RaiseAnswer("HttpResponseError")
    /\ Len(backendCalls) = 1 /\ backendCalls[1].api = "resources"
    /\ IsErrorDoc(result.doc)

(***************************************************************************)
(* C17 (SpecPair).  Concurrent invocations do not interfere: under every   *)
(* interleaving of the steps of two invocations, each one makes the        *)
(* backend call and returns the result it would make and return when run   *)
(* alone with the same inputs, the same faults and the same backend        *)
(* answer.                                                                 *)
(***************************************************************************)
\* the timespan the dispatcher of an invocation run alone hands to run_query
AloneTimespan(f) ==
    LET passed == PassedTimespan(f.module, f.report, f.args)
    IN IF ~UsesGraph(f.report) /\ f.module = "mcp_tools" /\ FalsyTimespan(passed)
       THEN DefaultTimespan ELSE passed

\* the subscription ids it hands to run_query
AloneSubs(f, env) ==
    LET passed == PassedSubscription(f.module, f.report, f.args)
    IN IF f.module = "mcp_tools"
       THEN PList(<<IF Falsy(passed) THEN env ELSE passed>>)
       ELSE IF Falsy(passed) THEN PList(<<env>>) ELSE passed

AloneReachesBackend(f, now) ==
    /\ ParameterError(f.module, f.report, f.args) = ""
    /\ f.fault \notin {"credential", "constructor"}
    /\ UsesGraph(f.report) \/ LogPrecheck(f.args.workspace, AloneTimespan(f), now) = ""

AloneCalls(f, env, now) ==
    IF ~AloneReachesBackend(f, now) THEN <<>>
    ELSE IF UsesGraph(f.report)
    THEN <<[api |-> "resources", target |-> AloneSubs(f, env),
            query |-> RenderQuery(f.module, f.report, f.args), start |-> 0, end |-> 0]>>
    ELSE LET w == ParseTimespan(AloneTimespan(f), now)
         IN <<[api |-> "query_workspace", target |-> f.args.workspace,
               query |-> RenderQuery(f.module, f.report, f.args),
               start |-> w.start, end |-> w.end]>>

AloneResult(f, now) ==
    LET err == ParameterError(f.module, f.report, f.args)
    IN IF err # "" THEN Json(ErrorDoc(err))
       ELSE IF f.fault = "credential" THEN Json(ErrorDoc("credential unavailable"))
       ELSE IF f.fault = "constructor"
       THEN Json(ErrorDoc(IF ConstructorTypeError(f.module)
                          THEN "__init__() got an unexpected keyword argument"
                          ELSE "credential unavailable"))
       ELSE IF UsesGraph(f.report)
       THEN SerializeAndDump(f.module, GraphResponse(f.answer))
       ELSE LET pre == LogPrecheck(f.args.workspace, AloneTimespan(f), now)
            IN IF pre # ""
               THEN SerializeAndDump(f.module, DictV(<<Entry("error", StrV(pre))>>))
               ELSE SerializeAndDump(f.module, LogResponse(f.answer))

AsAlone(f) ==
    f.pc = "returned" =>
        /\ f.backendCalls = AloneCalls(f, envSubscription, clock)
        /\ f.result = AloneResult(f, clock)

C17_NoInterference == AsAlone(Frame) /\ AsAlone(other)

\* two workspace queries with different timespans were in flight together;
\* each has returned after a backend call with its own window
C17_Witness ==
    /\ pc = "returned" /\ other.pc = "returned"
    /\ report = "log_analytics_tool" /\ other.report = "log_analytics_tool"
    /\ args.timespan = Str(<<"3", "d">>) /\ other.args.timespan = None
    /\ Len(backendCalls) = 1 /\ Len(other.backendCalls) = 1
    /\ backendCalls[1].end - backendCalls[1].start = 3 * MinutesPerDay
    /\ other.backendCalls[1].end - other.backendCalls[1].start = MinutesPerDay

(***************************************************************************)
(* C18 (Spec).  The per-report constants of the rendered query do not      *)
(* depend on the caller's input: GetWinBpAssessment always filters         *)
(* Weight >= 5.0 and takes the top 500, GetSwChangesList always takes the  *)
(* top 500, GetSwConfig always takes the top 1000.                         *)
(***************************************************************************)
C18_ReportConstantsAreFixed ==
    (module = "mcp_tools" /\ query.report = report) =>
        /\ report = "GetWinBpAssessment" =>
              query.weightThreshold = "5.0" /\ query.maxResults = 500
        /\ report = "GetSwChangesList" => query.maxResults = 500
        /\ report = "GetSwConfig" => query.maxResults = 1000

\* GetSwConfig rendered for a caller who gave a server name and a timespan
C18_Witness ==
    /\ module = "mcp_tools" /\ report = "GetSwConfig" /\ query.report = report
    /\ args.server = PStr("srv") /\ args.timespan = Str(<<"1", "0", "0", "d">>)
    /\ query.maxResults = 1000

C20_OneLogFilePerSession ==
    /\ Cardinality(sessionReturns) <= 1
    /\ sessionReturns # {} => sessionReturns = {currentLogFile}

\* both set-ups have run in one session, the second one at a later
\* millisecond than the one that names the file
C20_Witness ==
    /\ azureEnv = {}
    /\ rootHandlers # <<>> /\ logReturn.fn = "setup_function_specific_logging"
    /\ logReturn.path = currentLogFile /\ currentLogFile # NoFile
    /\ rootHandlers[1].path = currentLogFile
    /\ logNow > currentLogFile
    /\ sessionReturns = {currentLogFile}

(***************************************************************************)
(* C21 (SpecLog).  Different sessions create different log files: in the   *)
(* local environment, after reset_session_log the next                     *)
(* setup_timestamped_logging returns a path different from the path of     *)
(* every earlier session.                                                  *)
(***************************************************************************)
C21_NewSessionNewFile ==
    (azureEnv = {} /\ logReturn.fn = "setup_timestamped_logging"
        /\ logReturn.path # NoFile)
    => logReturn.path \notin earlierSessions

(***************************************************************************)
(* C22 (SpecLog).  While any of AZURE_FUNCTIONS_ENVIRONMENT,               *)
(* WEBSITE_SITE_NAME or FUNCTIONS_WORKER_RUNTIME is set, a call of         *)
(* setup_timestamped_logging, setup_function_specific_logging,             *)
(* get_or_create_session_log_file or cleanup_old_logs returns no path,     *)
(* leaves the session file variable and the handlers as they are, and      *)
(* creates, writes and deletes no file.                                    *)
(***************************************************************************)
C22_NoFileEffectInAzure ==
    [][ (/\ azureEnv # {}
         /\ \/ SetupTimestampedLogging
            \/ SetupFunctionSpecificLogging
            \/ GetOrCreateSessionLogFile
            \/ CleanupOldLogs)
        => /\ logReturn'.path = NoFile
           /\ UNCHANGED <<currentLogFile, rootHandlers, loggerHandlers, logFiles,
                          fileMtime, emitted>> ]_vars

\* cleanup_old_logs(0) was called under WEBSITE_SITE_NAME while the directory
\* holds an eight days old file and the file of a session that was set up
\* before the variable was set
C22_Witness ==
    /\ azureEnv = {"WEBSITE_SITE_NAME"}
    /\ logReturn.fn = "cleanup_old_logs"
    /\ OldLog \in logFiles
    /\ currentLogFile # NoFile /\ currentLogFile \in logFiles
    /\ logNow > currentLogFile

(***************************************************************************)
(* C23 (SpecLog).  All loggers write to the same file: in the local        *)
(* environment, while get_session_log_file returns a path, the file        *)
(* handler of the root logger and the file handler of every                *)
(* function-specific logger that was set up point to that path.  It is     *)
(* stated of the states a set-up call leaves; the states right after       *)
(* reset_session_log, where get_session_log_file returns None, are left    *)
(* out.                                                                    *)
(***************************************************************************)
C23_AllLoggersWriteToSessionFile ==
    (/\ azureEnv = {} /\ currentLogFile # NoFile
     /\ logReturn.fn \in {"setup_timestamped_logging", "setup_function_specific_logging"})
    => \A f \in OpenFiles : f = currentLogFile

(***************************************************************************)
(* C24 (SpecLog).  After any number of setup_function_specific_logging     *)
(* calls for one function name, that logger holds exactly two handlers,    *)
(* a file handler and a console handler.                                   *)
(***************************************************************************)
C24_ExactlyTwoHandlers ==
    \A n \in FunctionNames :
        loggerHandlers[n] # <<>> =>
            /\ Len(loggerHandlers[n]) = 2
            /\ loggerHandlers[n][1].kind = "file"
            /\ loggerHandlers[n][2].kind = "stream"

\* GetSqlMetadata was set up in a first session, whose file only it can have
\* created, and again in a second one
C24_Witness ==
    /\ azureEnv = {}
    /\ rootHandlers = <<>> /\ loggerHandlers["GetServerMetadata"] = <<>>
    /\ logFiles = {OldLog, 1, 2}
    /\ loggerHandlers["GetSqlMetadata"] = <<FileHandler(2), StreamHandler>>
    /\ logReturn = Returned("setup_function_specific_logging", 2)

(***************************************************************************)
(* C29 (SpecLog).  In the local environment, once setup_timestamped_logging*)
(* and setup_function_specific_logging have both run, a record emitted     *)
(* through the function-specific logger is written to the session log      *)
(* file exactly once.                                                      *)
(***************************************************************************)
C29_WrittenExactlyOnce ==
    (/\ azureEnv = {} /\ currentLogFile # NoFile
     /\ emitted.logger \in FunctionNames
     /\ rootHandlers # <<>> /\ loggerHandlers[emitted.logger] # <<>>
     /\ OpenFiles = {currentLogFile}
     /\ emitted.writes = Delivered(loggerHandlers[emitted.logger], rootHandlers))
    => Cardinality({i \in DOMAIN emitted.writes :
                        emitted.writes[i] = currentLogFile}) = 1

(***************************************************************************)
(* C30 (SpecLog).  cleanup_old_logs never deletes the log file of the      *)
(* current session: in the local environment, after a call of              *)
(* cleanup_old_logs, the session file that a handler writes to is still    *)
(* in the logs directory.                                                  *)
(***************************************************************************)
C30_CleanupKeepsSessionFile ==
    (/\ azureEnv = {} /\ logReturn.fn = "cleanup_old_logs"
     /\ currentLogFile # NoFile /\ currentLogFile \in OpenFiles)
    => currentLogFile \in logFiles

(***************************************************************************)
(* C25 (Spec).  Workspace and subscription identifiers reach the backend   *)
(* unchanged and are never rejected for their format: whenever run_query   *)
(* is reached with a workspace id that is a string and a timespan that     *)
(* parses, exactly one query is sent and it carries the caller's id, GUID  *)
(* or not; every resource-graph call carries the subscription list that    *)
(* run_query was given: the caller's non-empty value as it is, a string    *)
(* given to a report as the list of that string.                           *)
(***************************************************************************)
C25_ReachedRunQuery ==
    /\ pc = "returned" /\ report # ""
    /\ fault \notin {"credential", "constructor"}
    /\ result # NoResult
    /\ (entry # "" => EntryError(report, context) = "")

C25_IdentifiersPassedUnchanged ==
    /\ (C25_ReachedRunQuery /\ ~UsesGraph(report) /\ args.workspace.t = "str"
          /\ ParseTimespan(toolTimespan, clock).exc = "")
       => /\ Len(backendCalls) = 1
          /\ backendCalls[1].api = "query_workspace"
          /\ backendCalls[1].target = args.workspace
    /\ \A i \in DOMAIN backendCalls :
          backendCalls[i].api = "resources" =>
             /\ backendCalls[i].target = toolSubs
             /\ (report \in GraphReports /\ args.subscription.t = "str"
                    /\ ~Falsy(args.subscription))
                   => toolSubs = PList(<<args.subscription>>)
             /\ (~Falsy(args.subscription)
                    /\ (report \notin GraphReports \/ args.subscription.t = "list"))
                   => toolSubs = args.subscription

\* a query was sent to the workspace "ws-1", which is no GUID, and answered
C25_Witness ==
    /\ pc = "returned" /\ module = "agent_functions" /\ report = "GetSqlBpAssessment"
    /\ args.workspace = PStr("ws-1")
    /\ Len(backendCalls) = 1 /\ backendCalls[1].target = PStr("ws-1")
    /\ ~answer.raises /\ answer.tables # <<>>

(***************************************************************************)
(* C26 (Spec).  When a report is called without a required parameter in    *)
(* the way its module checks (an empty or null subscription_id in          *)
(* mcp_tools, a subscription_ids that is neither a string nor a list in    *)
(* agent_functions, an absent key in the context of a function_app entry), *)
(* the invocation returns an error document, requests no credential and    *)
(* makes no backend call.                                                  *)
(***************************************************************************)
C26_MissingParameter ==
    \/ /\ module = "mcp_tools" /\ report \in GraphReports
       /\ Falsy(args.subscription)
    \/ /\ entry = "" /\ module = "agent_functions" /\ report \in GraphReports
       /\ args.subscription.t \notin {"str", "list"}
    \/ /\ entry # ""
       /\ \/ context.shape = "no arguments"
          \/ /\ context.shape = "ok"
             /\ \/ UsesGraph(report) /\ context.args.subscription = PMissing
                \/ ~UsesGraph(report) /\ context.args.workspace = PMissing
                \/ report \in ServerReports /\ context.args.server = PMissing

C26_NoCredentialNoCallOnMissingParameter ==
    (pc # "idle" /\ C26_MissingParameter)
    => /\ pc = "returned" /\ IsErrorDoc(result.doc)
       /\ credentials = 0 /\ backendCalls = <<>>

\* GetPatchingLevel of mcp_tools was called with subscription_id = ''
C26_Witness ==
    /\ pc = "returned" /\ entry = "" /\ module = "mcp_tools"
    /\ report = "GetPatchingLevel" /\ args.subscription = PStr("")
    /\ result = Json(ErrorDoc("subscription_id is required"))
    /\ credentials = 0 /\ backendCalls = <<>>

(***************************************************************************)
(* C27 (Spec).  Every resource-graph backend call carries a non-empty      *)
(* list of subscription ids in which no element is null.                   *)
(***************************************************************************)
C27_SubscriptionListHasNoNull ==
    \A i \in DOMAIN backendCalls :
        backendCalls[i].api = "resources" =>
            /\ backendCalls[i].target.t = "list"
            /\ backendCalls[i].target.l # <<>>
            /\ \A j \in DOMAIN backendCalls[i].target.l :
                  backendCalls[i].target.l[j].t # "None"

(***************************************************************************)
(* C28 (Spec).  A successful backend answer is never reported to the       *)
(* caller as an error: when the backend call returned tables, the tool     *)
(* returns the rows document and not {'error': ...}.                       *)
(***************************************************************************)
C28_TablesAreNotReportedAsError ==
    (pc = "returned" /\ backendCalls # <<>> /\ ~answer.raises /\ answer.tables # <<>>)
    => (result.kind = "json" /\ ~IsErrorDoc(result.doc))

====
